---- MODULE Spec2Model ----
(***************************************************************************)
(* Conway's Game of Life on a toroidal grid (src/src/main.rs): the engine  *)
(* App (grid, width, height, running, stats) and the control loop of main. *)
(* Grid rows and columns are 0-based in the source and 1-based here:       *)
(* source grid[y][x] is self.grid[y + 1][x + 1].                           *)
(***************************************************************************)
EXTENDS Integers, Sequences, FiniteSets, TLC

VARIABLES app, pc, term, elapsed, last_event, ticked, restore_attempted,
          probe

vars == <<app, pc, term, elapsed, last_event, ticked, restore_attempted,
          probe>>

(* ------------------------------ bounds -------------------------------- *)

MaxWidth == 3
MaxHeight == 3
MaxCells == 9
MaxLoopCells == 6
MaxLiveCells == 2
MaxPatternDim == 5
MaxGen == 2
MaxDelaySteps == 2

(* --------------------------- program constants ------------------------ *)

\* tick_rate = Duration::from_millis(100), in milliseconds
TickRate == 100

\* the durations the model lets one part of a loop iteration take
Delays == {k * (TickRate \div 2) : k \in 0..MaxDelaySteps}

(* ------------------------------ Stats --------------------------------- *)

Stats_new ==
    [generation |-> 0, cells_created |-> 0, cells_destroyed |-> 0,
     current_population |-> 0]

(* ------------------------------- App ---------------------------------- *)

\* the grids rng.gen_bool(0.3) can produce: every cell independently either
Grids(width, height) == [1..height -> [1..width -> BOOLEAN]]

\* row.iter().filter(|&&cell| cell).count() of one row
RECURSIVE CountRow(_, _)
CountRow(row, k) ==
    IF k > Len(row) THEN 0
    ELSE (IF row[k] THEN 1 ELSE 0) + CountRow(row, k + 1)

RECURSIVE CountRows(_, _)
CountRows(grid, r) ==
    IF r > Len(grid) THEN 0
    ELSE CountRow(grid[r], 1) + CountRows(grid, r + 1)

count_total_alive(self) == CountRows(self.grid, 1)

\* faulty variant of new: the engine starts running
new_running_mut(width, height, cells) ==
    LET a == [grid |-> cells, width |-> width, height |-> height,
              running |-> TRUE, stats |-> Stats_new]
    IN [a EXCEPT !.stats.current_population = count_total_alive(a)]

new(width, height, cells) ==
    LET a == [grid |-> cells, width |-> width, height |-> height,
              running |-> FALSE, stats |-> Stats_new]
    IN [a EXCEPT !.stats.current_population = count_total_alive(a)]

\* i32::MAX, the largest value the casts "as i32" keep
I32Max == 2147483647

\* x as i32: a usize above i32::MAX wraps to a negative number
AsI32(n) == IF n > I32Max THEN (n - I32Max) - I32Max - 2 ELSE n

\* i32 % : the remainder of the division truncated toward zero
TruncRem(a, b) == IF a >= 0 THEN a % b ELSE -((-a) % b)

\* faulty variant of rem_euclid: the absolute value of the remainder
rem_euclid_abs_mut(a, b) ==
    LET r == TruncRem(a, b) IN IF r < 0 THEN -r ELSE r

\* faulty variant of rem_euclid: a negative remainder is clamped to 0
rem_euclid_clamp_mut(a, b) ==
    LET r == TruncRem(a, b) IN IF r < 0 THEN 0 ELSE r

\* i32::rem_euclid for a positive divisor
rem_euclid(a, b) ==
    LET r == TruncRem(a, b) IN IF r < 0 THEN r + b ELSE r

\* faulty variant of NeighborLoop: the offset dx = 0, dy = 0 is not skipped
RECURSIVE NeighborLoop_no_skip_mut(_, _, _, _, _)
NeighborLoop_no_skip_mut(self, x, y, k, count) ==
    IF k > 8 THEN count
    ELSE LET dy == (k \div 3) - 1
             dx == (k % 3) - 1
             nx == rem_euclid(AsI32(x) + dx, AsI32(self.width))
             ny == rem_euclid(AsI32(y) + dy, AsI32(self.height))
         IN NeighborLoop_no_skip_mut(self, x, y, k + 1,
                IF self.grid[ny + 1][nx + 1] THEN count + 1 ELSE count)

\* the loops dy in -1..=1, dx in -1..=1 of count_neighbors, flattened:
\* step k has dy = k div 3 - 1 and dx = k mod 3 - 1
RECURSIVE NeighborLoop(_, _, _, _, _)
NeighborLoop(self, x, y, k, count) ==
    IF k > 8 THEN count
    ELSE LET dy == (k \div 3) - 1
             dx == (k % 3) - 1
         IN IF dx = 0 /\ dy = 0
            THEN NeighborLoop(self, x, y, k + 1, count)
            ELSE LET nx == rem_euclid(AsI32(x) + dx, AsI32(self.width))
                     ny == rem_euclid(AsI32(y) + dy, AsI32(self.height))
                 IN NeighborLoop(self, x, y, k + 1,
                        IF self.grid[ny + 1][nx + 1] THEN count + 1 ELSE count)

count_neighbors(self, x, y) == NeighborLoop(self, x, y, 0, 0)

\* faulty variant of NewState: a surviving cell is counted as created
NewState_born_on_survive_mut(cell, live_neighbors) ==
    IF cell /\ live_neighbors < 2
        THEN [state |-> FALSE, created |-> 0, destroyed |-> 1]
    ELSE IF cell /\ live_neighbors \in {2, 3}
        THEN [state |-> TRUE, created |-> 1, destroyed |-> 0]
    ELSE IF cell /\ live_neighbors > 3
        THEN [state |-> FALSE, created |-> 0, destroyed |-> 1]
    ELSE IF ~cell /\ live_neighbors = 3
        THEN [state |-> TRUE, created |-> 1, destroyed |-> 0]
    ELSE [state |-> cell, created |-> 0, destroyed |-> 0]

\* faulty variant of NewState: a dead cell is born with up to 3 neighbours
NewState_birth_le3_mut(cell, live_neighbors) ==
    IF cell /\ live_neighbors < 2
        THEN [state |-> FALSE, created |-> 0, destroyed |-> 1]
    ELSE IF cell /\ live_neighbors \in {2, 3}
        THEN [state |-> TRUE, created |-> 0, destroyed |-> 0]
    ELSE IF cell /\ live_neighbors > 3
        THEN [state |-> FALSE, created |-> 0, destroyed |-> 1]
    ELSE IF ~cell /\ live_neighbors <= 3
        THEN [state |-> TRUE, created |-> 1, destroyed |-> 0]
    ELSE [state |-> cell, created |-> 0, destroyed |-> 0]

\* faulty variant of NewState: a live cell survives with 2 neighbours only
NewState_survive_2_only_mut(cell, live_neighbors) ==
    IF cell /\ live_neighbors < 2
        THEN [state |-> FALSE, created |-> 0, destroyed |-> 1]
    ELSE IF cell /\ live_neighbors = 2
        THEN [state |-> TRUE, created |-> 0, destroyed |-> 0]
    ELSE IF cell /\ live_neighbors > 2
        THEN [state |-> FALSE, created |-> 0, destroyed |-> 1]
    ELSE IF ~cell /\ live_neighbors = 3
        THEN [state |-> TRUE, created |-> 1, destroyed |-> 0]
    ELSE [state |-> cell, created |-> 0, destroyed |-> 0]

\* faulty variant of NewState: a death by overpopulation is not counted
NewState_overpop_uncounted_mut(cell, live_neighbors) ==
    IF cell /\ live_neighbors < 2
        THEN [state |-> FALSE, created |-> 0, destroyed |-> 1]
    ELSE IF cell /\ live_neighbors \in {2, 3}
        THEN [state |-> TRUE, created |-> 0, destroyed |-> 0]
    ELSE IF cell /\ live_neighbors > 3
        THEN [state |-> FALSE, created |-> 0, destroyed |-> 0]
    ELSE IF ~cell /\ live_neighbors = 3
        THEN [state |-> TRUE, created |-> 1, destroyed |-> 0]
    ELSE [state |-> cell, created |-> 0, destroyed |-> 0]

\* the match (cell, live_neighbors) of update, arm by arm
NewState(cell, live_neighbors) ==
    IF cell /\ live_neighbors < 2
        THEN [state |-> FALSE, created |-> 0, destroyed |-> 1]
    ELSE IF cell /\ live_neighbors \in {2, 3}
        THEN [state |-> TRUE, created |-> 0, destroyed |-> 0]
    ELSE IF cell /\ live_neighbors > 3
        THEN [state |-> FALSE, created |-> 0, destroyed |-> 1]
    ELSE IF ~cell /\ live_neighbors = 3
        THEN [state |-> TRUE, created |-> 1, destroyed |-> 0]
    ELSE [state |-> cell, created |-> 0, destroyed |-> 0]

\* faulty variant of NeighborSource: the count reads the grid being written
NeighborSource_in_place_mut(self, new_grid) == [self EXCEPT !.grid = new_grid]

\* the engine count_neighbors reads inside update: self, whose grid is the
\* old generation; new_grid is only written
NeighborSource(self, new_grid) == self

\* the loops y in 0..height, x in 0..width of update, flattened: step i has
\* y = i div width and x = i mod width
RECURSIVE UpdateLoop(_, _, _, _, _)
UpdateLoop(self, new_grid, i, cells_created, cells_destroyed) ==
    IF i >= self.width * self.height
    THEN [grid |-> new_grid, cells_created |-> cells_created,
          cells_destroyed |-> cells_destroyed]
    ELSE LET y == i \div self.width
             x == i % self.width
             live_neighbors ==
                 {count_neighbors(NeighborSource(self, new_grid), x, y)}
             cell == self.grid[y + 1][x + 1]
             Rest(r) == UpdateLoop(self,
                                   [new_grid EXCEPT ![y + 1][x + 1] = r.state],
                                   i + 1,
                                   cells_created + r.created,
                                   cells_destroyed + r.destroyed)
         IN CHOOSE done \in
                {Rest(r) : r \in {NewState(cell, n) : n \in live_neighbors}} :
                TRUE

\* faulty variant of update: current_population is not recomputed
update_stale_population_mut(self) ==
    LET r == UpdateLoop(self, self.grid, 0, 0, 0)
    IN [self EXCEPT !.grid = r.grid,
                    !.stats.generation = @ + 1,
                    !.stats.cells_created = @ + r.cells_created,
                    !.stats.cells_destroyed = @ + r.cells_destroyed]

\* update: the loops, then the grid swap and the counters, then the recount
\* over the swapped grid. The receiver and each stage are bound through a
\* one-element set, so that each is evaluated once and the next stage works
\* on its value.
update(self) ==
    LET Swapped(s, r) == [s EXCEPT !.grid = r.grid,
                                   !.stats.generation = @ + 1,
                                   !.stats.cells_created = @ + r.cells_created,
                                   !.stats.cells_destroyed = @ + r.cells_destroyed]
        Recounted(a) ==
            [a EXCEPT !.stats.current_population = count_total_alive(a)]
        Stepped(s) ==
            CHOOSE done \in
                {Recounted(a) :
                    a \in {Swapped(s, r) :
                              r \in {UpdateLoop(s, s.grid, 0, 0, 0)}}} : TRUE
    IN CHOOSE done \in {Stepped(s) : s \in {self}} : TRUE

\* faulty variant of toggle_running: sets the flag instead of flipping it
toggle_running_set_mut(self) == [self EXCEPT !.running = TRUE]

toggle_running(self) == [self EXCEPT !.running = ~@]

(* --------------------------- control loop ----------------------------- *)

\* faulty variant of HandleEvent: Enter updates also while running
HandleEvent_step_always_mut(self, ev) ==
    IF ev = "toggle" THEN toggle_running(self)
    ELSE IF ev = "step" THEN update(self)
    ELSE self

\* match key.code: ' ' toggles, Enter steps when paused, the rest does nothing
HandleEvent(self, ev) ==
    IF ev = "toggle" THEN toggle_running(self)
    ELSE IF ev = "step" THEN (IF ~self.running THEN update(self) ELSE self)
    ELSE self

\* faulty variant of TickUpdate: the tick updates also while paused
TickUpdate_always_mut(self, since_tick) ==
    IF since_tick >= TickRate THEN update(self) ELSE self

\* faulty variant of TickUpdate: the interval must be exceeded, not reached
TickUpdate_strict_mut(self, since_tick) ==
    IF since_tick > TickRate
    THEN (IF self.running THEN update(self) ELSE self)
    ELSE self

\* if last_tick.elapsed() >= tick_rate { if app.running { app.update(); } .. }
TickUpdate(self, since_tick) ==
    IF since_tick >= TickRate
    THEN (IF self.running THEN update(self) ELSE self)
    ELSE self

\* faulty variant of LastTickElapsed: last_tick is reset only with an update
LastTickElapsed_if_running_mut(self, since_tick) ==
    IF since_tick >= TickRate /\ self.running THEN 0 ELSE since_tick

\* last_tick.elapsed() after the check, self being the engine it leaves:
\* last_tick = Instant::now() is inside the outer if, outside the inner one
LastTickElapsed(self, since_tick) ==
    IF since_tick >= TickRate THEN 0 ELSE since_tick

\* tick_rate.checked_sub(last_tick.elapsed()).unwrap_or_else(|| 0)
Timeout(since_tick) ==
    IF TickRate >= since_tick THEN TickRate - since_tick ELSE 0

\* One loop iteration takes d_draw from the end of the previous one to the
\* call of event::poll, and event::poll returns after d_poll: with an event
\* no later than the timeout, without one when the timeout expires.
\* last_tick.elapsed() at the check that follows the match:
AtCheck(d_draw, d_poll) == elapsed + d_draw + d_poll

EventBy(d_draw, d_poll) == d_poll <= Timeout(elapsed + d_draw)

\* event::poll(timeout) returns false: the timeout expired with no event
PollTimeout ==
    \E d_draw \in Delays :
        LET at_check == AtCheck(d_draw, Timeout(elapsed + d_draw))
        IN /\ pc = "loop"
           /\ app.stats.generation < MaxGen
           /\ app' = TickUpdate(HandleEvent(app, "none"), at_check)
           /\ ticked' = (at_check >= TickRate)
           /\ elapsed' = LastTickElapsed(app', at_check)
           /\ last_event' = "none"
           /\ UNCHANGED <<pc, term, restore_attempted, probe>>

\* faulty variant of KeyOther: any other key leaves the loop
KeyOther_breaks_mut ==
    \E d_draw \in Delays, d_poll \in Delays :
        /\ pc = "loop"
        /\ app.stats.generation < MaxGen
        /\ EventBy(d_draw, d_poll)
        /\ pc' = "teardown"
        /\ ticked' = FALSE
        /\ last_event' = "other"
        /\ UNCHANGED <<app, elapsed, term, restore_attempted, probe>>

\* KeyCode::Char('q') => break
KeyQuit ==
    \E d_draw \in Delays, d_poll \in Delays :
        /\ pc = "loop"
        /\ app.stats.generation < MaxGen
        /\ EventBy(d_draw, d_poll)
        /\ pc' = "teardown"
        /\ ticked' = FALSE
        /\ last_event' = "quit"
        /\ UNCHANGED <<app, elapsed, term, restore_attempted, probe>>

\* KeyCode::Char(' ') => app.toggle_running(), then the tick check
KeyToggle ==
    \E d_draw \in Delays, d_poll \in Delays :
        LET at_check == AtCheck(d_draw, d_poll)
        IN /\ pc = "loop"
           /\ app.stats.generation < MaxGen
           /\ EventBy(d_draw, d_poll)
           /\ app' = TickUpdate(HandleEvent(app, "toggle"), at_check)
           /\ ticked' = (at_check >= TickRate)
           /\ elapsed' = LastTickElapsed(app', at_check)
           /\ last_event' = "toggle"
           /\ UNCHANGED <<pc, term, restore_attempted, probe>>

\* KeyCode::Enter => { if !app.running { app.update(); } }, then the tick check
KeyStep ==
    \E d_draw \in Delays, d_poll \in Delays :
        LET at_check == AtCheck(d_draw, d_poll)
        IN /\ pc = "loop"
           /\ app.stats.generation < MaxGen
           /\ EventBy(d_draw, d_poll)
           /\ app' = TickUpdate(HandleEvent(app, "step"), at_check)
           /\ ticked' = (at_check >= TickRate)
           /\ elapsed' = LastTickElapsed(app', at_check)
           /\ last_event' = "step"
           /\ UNCHANGED <<pc, term, restore_attempted, probe>>

\* _ => {}, then the tick check
KeyOther ==
    \E d_draw \in Delays, d_poll \in Delays :
        LET at_check == AtCheck(d_draw, d_poll)
        IN /\ pc = "loop"
           /\ app.stats.generation < MaxGen
           /\ EventBy(d_draw, d_poll)
           /\ app' = TickUpdate(HandleEvent(app, "other"), at_check)
           /\ ticked' = (at_check >= TickRate)
           /\ elapsed' = LastTickElapsed(app', at_check)
           /\ last_event' = "other"
           /\ UNCHANGED <<pc, term, restore_attempted, probe>>

\* event::read() returns an event that is not Event::Key (mouse, resize, ..):
\* the if let does not match, then the tick check
NonKeyEvent ==
    \E d_draw \in Delays, d_poll \in Delays :
        LET at_check == AtCheck(d_draw, d_poll)
        IN /\ pc = "loop"
           /\ app.stats.generation < MaxGen
           /\ EventBy(d_draw, d_poll)
           /\ app' = TickUpdate(HandleEvent(app, "nonkey"), at_check)
           /\ ticked' = (at_check >= TickRate)
           /\ elapsed' = LastTickElapsed(app', at_check)
           /\ last_event' = "nonkey"
           /\ UNCHANGED <<pc, term, restore_attempted, probe>>

\* terminal.draw(..)?, event::poll(timeout)? or event::read()? returns Err:
\* the ? operator returns it from main at once
IoFailures == {"draw_fail", "poll_fail", "read_fail"}

IoFailure ==
    /\ pc = "loop"
    /\ \E f \in IoFailures : last_event' = f
    /\ pc' = "error"
    /\ ticked' = FALSE
    /\ UNCHANGED <<app, term, elapsed, restore_attempted, probe>>

\* after the loop: disable_raw_mode()?; execute!(LeaveAlternateScreen,
\* DisableMouseCapture)?; show_cursor()?; Ok(())
Teardown ==
    /\ pc = "teardown"
    /\ restore_attempted' = TRUE
    /\ \/ /\ term' = [raw_mode |-> FALSE, alternate_screen |-> FALSE,
                      mouse_capture |-> FALSE]
          /\ pc' \in {"done", "error"}
       \/ /\ term' = [term EXCEPT !.raw_mode = FALSE]
          /\ pc' = "error"
       \/ /\ term' = term
          /\ pc' = "error"
    /\ UNCHANGED <<app, elapsed, last_event, ticked, probe>>

\* the state main is in when it enters the loop: the terminal is set up,
\* App::new(width, height) has run, last_tick = Instant::now()
Started(cells_max) ==
    /\ \E width \in 1..MaxWidth, height \in 1..MaxHeight :
          /\ width * height <= cells_max
          /\ \E cells \in Grids(width, height) : app = new(width, height, cells)
    /\ pc = "loop"
    /\ term = [raw_mode |-> TRUE, alternate_screen |-> TRUE,
               mouse_capture |-> TRUE]
    /\ elapsed = 0
    /\ last_event = "start"
    /\ ticked = FALSE
    /\ restore_attempted = FALSE
    /\ probe = [op |-> "none"]

Init == Started(MaxLoopCells)

Next ==
    \/ PollTimeout
    \/ KeyQuit
    \/ KeyToggle
    \/ KeyStep
    \/ KeyOther
    \/ NonKeyEvent
    \/ IoFailure
    \/ Teardown

Spec == Init /\ [][Next]_vars

\* an iteration during which the clock moved: Instant::now() is monotonic
\* and time does not stand still, whatever events arrive
TimePasses == Next /\ (ticked' \/ elapsed' > elapsed)

\* the loop on the smallest grids: its progress does not depend on the cells
InitLive == Started(MaxLiveCells)

SpecLive == InitLive /\ [][Next]_vars /\ WF_vars(TimePasses)

(* ------------------------- the engine on its own ---------------------- *)

\* app.update() called on the engine, outside the loop
CallUpdate ==
    /\ app.stats.generation < MaxGen
    /\ app' = update(app)
    /\ probe' = [op |-> "update"]
    /\ UNCHANGED <<pc, term, elapsed, last_event, ticked, restore_attempted>>

\* app.count_neighbors(x, y) called for an in-range cell
CallCountNeighbors ==
    \E x \in 0..(app.width - 1), y \in 0..(app.height - 1) :
        /\ probe' = [op |-> "count_neighbors", x |-> x, y |-> y,
                     result |-> count_neighbors(app, x, y)]
        /\ UNCHANGED <<app, pc, term, elapsed, last_event, ticked,
                       restore_attempted>>

InitEngine == Started(MaxCells)

NextEngine ==
    \/ CallUpdate
    \/ CallCountNeighbors

SpecEngine == InitEngine /\ [][NextEngine]_vars

(* -------------------- the engine on chosen patterns ------------------- *)

\* the state main is in when it enters the loop with the engine self
StartedWith(self) ==
    /\ app = self
    /\ pc = "loop"
    /\ term = [raw_mode |-> TRUE, alternate_screen |-> TRUE,
               mouse_capture |-> TRUE]
    /\ elapsed = 0
    /\ last_event = "start"
    /\ ticked = FALSE
    /\ restore_attempted = FALSE
    /\ probe = [op |-> "none"]

\* the outcome of the rng in which exactly the cells (x, y) of live are alive
PatternGrid(width, height, live) ==
    [r \in 1..height |-> [c \in 1..width |-> <<c - 1, r - 1>> \in live]]

\* the 2 x 2 block whose first cell is (bx, by), wrapped at the edges
BlockCells(width, height, bx, by) ==
    {<<(bx + i) % width, (by + j) % height>> : i \in 0..1, j \in 0..1}

\* App::new on a grid of at least 4 x 4 whose live cells are one block
InitBlock ==
    \E width \in 4..MaxPatternDim, height \in 4..MaxPatternDim :
        \E bx \in 0..(width - 1), by \in 0..(height - 1) :
            StartedWith(new(width, height,
                PatternGrid(width, height, BlockCells(width, height, bx, by))))

SpecBlock == InitBlock /\ [][CallUpdate]_vars

\* the line of three cells through (cx, cy), wrapped at the edges:
\* horizontal (along x) or vertical (along y)
BlinkerCells(width, height, cx, cy, horizontal) ==
    IF horizontal
    THEN {<<(cx + i) % width, cy>> : i \in {-1, 0, 1}}
    ELSE {<<cx, (cy + j) % height>> : j \in {-1, 0, 1}}

\* App::new on a grid of at least 5 x 5 whose live cells are one blinker
InitBlinker ==
    \E width \in 5..MaxPatternDim, height \in 5..MaxPatternDim :
        \E cx \in 0..(width - 1), cy \in 0..(height - 1),
           horizontal \in BOOLEAN :
            StartedWith(new(width, height,
                PatternGrid(width, height,
                    BlinkerCells(width, height, cx, cy, horizontal))))

SpecBlinker == InitBlinker /\ [][CallUpdate]_vars

\* App::new(width, height) as the source accepts it: usize arguments, zero
\* included; a zero width gives height empty rows, a zero height no rows
InitAnyDims ==
    \E width \in 0..MaxWidth, height \in 0..MaxHeight :
        /\ width * height <= MaxCells
        /\ \E cells \in Grids(width, height) :
              StartedWith(new(width, height, cells))

SpecAnyDims == InitAnyDims /\ [][NextEngine]_vars

(* ------------------------ what the claims speak of -------------------- *)

\* the number of true cells of a grid, counted as a set of positions
LiveCount(grid) ==
    Cardinality({rc \in UNION {{<<r, c>> : c \in DOMAIN grid[r]} :
                                  r \in DOMAIN grid} :
                    grid[rc[1]][rc[2]]})

Offsets == ({-1, 0, 1} \X {-1, 0, 1}) \ {<<0, 0>>}

\* the number of offsets (dx, dy) whose wrapped cell is alive; % is the
\* mathematical modulo, with a result in 0..(divisor - 1)
WrapCount(self, x, y) ==
    Cardinality({d \in Offsets :
        self.grid[((y + d[2]) % self.height) + 1][((x + d[1]) % self.width) + 1]})

Cells(self) == (0..(self.width - 1)) \X (0..(self.height - 1))

Alive(self, c) == self.grid[c[2] + 1][c[1] + 1]

\* the steps k of the loops of count_neighbors that read the grid: all
\* but the one with dx = 0 and dy = 0
NeighborSteps == {k \in 0..8 : ~((k % 3) - 1 = 0 /\ (k \div 3) - 1 = 0)}

\* the position (nx, ny) that count_neighbors(x, y) reads at step k
NeighborCell(self, x, y, k) ==
    <<rem_euclid(AsI32(x) + ((k % 3) - 1), AsI32(self.width)),
      rem_euclid(AsI32(y) + ((k \div 3) - 1), AsI32(self.height))>>

\* the set of positions count_neighbors(x, y) reads
NeighborCells(self, x, y) ==
    {NeighborCell(self, x, y, k) : k \in NeighborSteps}

(* ------------------------------- claims ------------------------------- *)

\* C1: after one update() a cell is alive iff (it was alive and n is 2 or 3)
\* or (it was dead and n is 3), n being its wrap-around neighbour count in
\* the grid as it was before the update began.
C1_UpdateRule ==
    [][app'.stats.generation = app.stats.generation + 1 =>
         \A c \in Cells(app) :
            LET n == WrapCount(app, c[1], c[2])
            IN Alive(app', c) <=>
                  \/ Alive(app, c) /\ n \in {2, 3}
                  \/ ~Alive(app, c) /\ n = 3]_vars

\* an update has run on a 3 x 3 torus that had live cells
C1_Witness ==
    /\ probe.op = "update"
    /\ app.width = 3 /\ app.height = 3
    /\ app.stats.cells_created > 0
    /\ app.stats.cells_destroyed > 0

\* C2: count_neighbors(x, y) is the number of the 8 offsets whose wrapped
\* cell is alive, every wrapped coordinate is in range, the result is in
\* 0..8, and a live cell in column 0 (row 0) is counted for the cell of the
\* same row (column) in column width-1 (row height-1).
C2_CountNeighbors ==
    probe.op = "count_neighbors" =>
        /\ probe.result = WrapCount(app, probe.x, probe.y)
        /\ probe.result \in 0..8
        /\ \A d \in {-1, 0, 1} :
              /\ rem_euclid(AsI32(probe.x) + d, AsI32(app.width))
                    \in 0..(app.width - 1)
              /\ rem_euclid(AsI32(probe.y) + d, AsI32(app.height))
                    \in 0..(app.height - 1)
        /\ (probe.x = app.width - 1 /\ Alive(app, <<0, probe.y>>)
               => probe.result >= 1)
        /\ (probe.y = app.height - 1 /\ Alive(app, <<probe.x, 0>>)
               => probe.result >= 1)

\* count_neighbors was called on the last column of a 3-wide grid whose
\* only live cell of the neighbourhood is in column 0
C2_Witness ==
    /\ probe.op = "count_neighbors"
    /\ app.width = 3 /\ app.height = 3
    /\ probe.x = 2
    /\ Alive(app, <<0, probe.y>>)
    /\ probe.result = 1

\* C3: in every reachable state stats.current_population is the number of
\* true cells of the current grid.
C3_Population == app.stats.current_population = LiveCount(app.grid)

\* a step has changed the population
C3_Witness ==
    /\ last_event = "step"
    /\ app.stats.generation >= 1
    /\ app.stats.current_population > 0
    /\ app.stats.cells_created # app.stats.cells_destroyed

\* C4: while Paused, an iteration with no event, or with an event that is
\* not step, toggle or quit, leaves the grid, the statistics and the run
\* flag unchanged, also when the tick interval has elapsed.
C4_PausedIdle ==
    [][pc = "loop" /\ ~app.running /\ last_event' \in {"none", "other", "nonkey"}
          => app' = app]_vars

\* paused, the tick interval elapsed in an iteration without an event
C4_Witness ==
    /\ last_event = "none"
    /\ ~app.running
    /\ ticked
    /\ app.stats.current_population > 0

\* C5: a step event while Paused runs update() exactly once in its
\* iteration (generation grows by exactly 1); a step event while Running
\* causes no update beyond the one of the tick.
C5_Step ==
    [][pc = "loop" /\ last_event' = "step" =>
          /\ app'.running = app.running
          /\ app'.stats.generation =
                app.stats.generation +
                   (IF ~app.running THEN 1 ELSE IF ticked' THEN 1 ELSE 0)]_vars

\* a step while paused, in an iteration whose tick interval had elapsed
C5_Witness ==
    /\ last_event = "step"
    /\ ~app.running
    /\ ticked
    /\ app.stats.generation = 1

\* C6: the loop is left only by the quit event (or a failure of the render
\* sink or input source); the iteration that consumes quit ends the loop
\* with no update and no change of the run state, and none follows.
C6_QuitOnly ==
    [][/\ (pc = "loop" /\ pc' # "loop"
              => last_event' \in {"quit"} \cup IoFailures)
       /\ (pc = "loop" /\ last_event' = "quit"
              => pc' = "teardown" /\ app' = app)
       /\ (pc # "loop" => pc' # "loop" /\ app' = app)]_vars

\* quit consumed while running, after a generation
C6_Witness ==
    /\ pc = "teardown"
    /\ last_event = "quit"
    /\ app.running
    /\ app.stats.generation >= 1

\* C7: when the render sink or the input source fails inside the loop, the
\* restoration of the terminal is attempted before main returns the error.
C7_RestoreOnFailure ==
    pc = "error" /\ last_event \in IoFailures => restore_attempted

\* C8: each update() adds 1 to generation, the number of cells it turned
\* from dead to alive to cells_created and the number it turned from alive
\* to dead to cells_destroyed; nothing else changes the counters.
C8_Counters ==
    [][LET k == app'.stats.generation - app.stats.generation
           born == {c \in Cells(app) : ~Alive(app, c) /\ Alive(app', c)}
           died == {c \in Cells(app) : Alive(app, c) /\ ~Alive(app', c)}
       IN /\ k \in {0, 1}
          /\ app'.stats.cells_created =
                app.stats.cells_created + Cardinality(born)
          /\ app'.stats.cells_destroyed =
                app.stats.cells_destroyed + Cardinality(died)
          /\ (k = 0 => app' = app \/ app' = toggle_running(app))
          /\ (k = 1 <=> /\ pc = "loop" /\ pc' = "loop"
                        /\ \/ last_event' = "step" /\ ~app.running
                           \/ ticked' /\ app'.running)]_vars

\* two updates, with births and deaths
C8_Witness ==
    /\ app.stats.generation = 2
    /\ app.stats.cells_created > 0
    /\ app.stats.cells_destroyed > 0

\* C9: right after new(width, height) the engine is paused, generation,
\* cells_created and cells_destroyed are 0 and current_population is the
\* live-cell count of the grid; the grid has height rows of width cells,
\* then and after any operations.
C9_Construction ==
    /\ [](/\ last_event = "start" =>
               /\ ~app.running
               /\ app.stats.generation = 0
               /\ app.stats.cells_created = 0
               /\ app.stats.cells_destroyed = 0
               /\ app.stats.current_population = LiveCount(app.grid)
          /\ Len(app.grid) = app.height
          /\ \A r \in 1..app.height : Len(app.grid[r]) = app.width)
    /\ [][app'.width = app.width /\ app'.height = app.height]_vars

\* a freshly constructed engine with live cells
C9_Witness ==
    /\ last_event = "start"
    /\ app.width = 3 /\ app.height = 2
    /\ app.stats.current_population = 4

\* C10: two toggles give back the run state, and toggle_running() changes
\* the run flag only: whatever else changes in the iteration of a toggle
\* event is the update of the tick that follows it.
C10_Toggle ==
    /\ [](toggle_running(toggle_running(app)) = app)
    /\ [][pc = "loop" /\ last_event' = "toggle" =>
             /\ app'.running = ~app.running
             /\ (~ticked' \/ app.running
                    => app' = [app EXCEPT !.running = ~app.running])
             /\ (ticked' /\ ~app.running
                    => app'.stats.generation = app.stats.generation + 1)]_vars

\* a second toggle has paused the engine again
C10_Witness ==
    /\ last_event = "toggle"
    /\ ~app.running
    /\ ~ticked
    /\ app.stats.generation >= 1


\* C12: on an all-dead grid update() gives an all-dead grid, leaves
\* current_population at 0 and cells_created and cells_destroyed as they
\* were; only generation advances, update after update.
C12_AllDead ==
    [][LiveCount(app.grid) = 0
         /\ app'.stats.generation = app.stats.generation + 1
       => /\ LiveCount(app'.grid) = 0
          /\ app'.grid = app.grid
          /\ app'.stats.current_population = 0
          /\ app'.stats.cells_created = app.stats.cells_created
          /\ app'.stats.cells_destroyed = app.stats.cells_destroyed]_vars

\* two updates of a 3 x 3 grid that was all dead from the start
C12_Witness ==
    /\ probe.op = "update"
    /\ app.width = 3 /\ app.height = 3
    /\ app.stats.generation = 2
    /\ LiveCount(app.grid) = 0
    /\ app.stats.cells_created = 0
    /\ app.stats.cells_destroyed = 0


LiveSet(self) == {c \in Cells(self) : Alive(self, c)}

\* C13: on a grid of at least 4 x 4 whose only live cells are a 2 x 2 block
\* (anywhere, also across the wrapped edges) every update() leaves the grid
\* as it is, current_population at 4 and cells_created and cells_destroyed
\* unchanged.
C13_BlockStill ==
    /\ [](/\ \E bx \in 0..(app.width - 1), by \in 0..(app.height - 1) :
                LiveSet(app) = BlockCells(app.width, app.height, bx, by)
          /\ app.stats.current_population = 4
          /\ app.stats.cells_created = 0
          /\ app.stats.cells_destroyed = 0)
    /\ [][app'.grid = app.grid]_vars

\* two updates of a 4 x 4 grid whose block lies across both wrapped edges
C13_Witness ==
    /\ probe.op = "update"
    /\ app.stats.generation = 2
    /\ app.width = 4 /\ app.height = 4
    /\ LiveSet(app) = {<<0, 0>>, <<3, 0>>, <<0, 3>>, <<3, 3>>}


\* C14: on a grid of at least 5 x 5 whose only live cells are a blinker
\* (anywhere, also across the wrapped edges) one update() turns the line to
\* the perpendicular one through the same centre, and a second update()
\* gives back the original grid.
C14_Blinker ==
    /\ [](update(update(app)).grid = app.grid)
    /\ [][app'.stats.generation = app.stats.generation + 1 =>
            \E cx \in 0..(app.width - 1), cy \in 0..(app.height - 1),
               horizontal \in BOOLEAN :
                /\ LiveSet(app) =
                      BlinkerCells(app.width, app.height, cx, cy, horizontal)
                /\ LiveSet(app') =
                      BlinkerCells(app.width, app.height, cx, cy, ~horizontal)
          ]_vars

\* two updates of a blinker that lies across the wrapped edge of a 5 x 5 grid
C14_Witness ==
    /\ probe.op = "update"
    /\ app.stats.generation = 2
    /\ app.width = 5 /\ app.height = 5
    /\ LiveSet(app) = {<<4, 0>>, <<0, 0>>, <<1, 0>>}
    /\ app.stats.cells_created = 4
    /\ app.stats.cells_destroyed = 4


\* C15: construction with width = 0 or height = 0 is rejected, so that no
\* engine of a zero dimension exists on which update() has run.
C15_RejectDegenerate ==
    app.width = 0 \/ app.height = 0 => app.stats.generation = 0


\* C16: an iteration that finds the time since the last tick to be at least
\* tickRate resets the last-tick timestamp, with or without an update; no
\* iteration performs more than one update(), and no iteration starts with
\* a whole tick interval already behind it.
C16_TickReset ==
    /\ [](pc = "loop" => elapsed < TickRate)
    /\ [][pc = "loop" /\ pc' = "loop" =>
             /\ (ticked' => elapsed' = 0)
             /\ (~ticked' => elapsed' >= elapsed)
             /\ app'.stats.generation <= app.stats.generation + 1]_vars

\* the engine resumed by a toggle in an iteration whose tick interval had
\* elapsed: one update, last tick reset
C16_Witness ==
    /\ last_event = "toggle"
    /\ app.running
    /\ ticked
    /\ elapsed = 0
    /\ app.stats.generation = 1


\* C17: while the engine stays Running and the loop is not left, generation
\* eventually increases, whatever events arrive before the poll timeouts
\* expire, as long as time passes.
C17_Advances ==
    \A n \in 0..(MaxGen - 1) :
        (pc = "loop" /\ app.running /\ app.stats.generation = n)
            ~> (app.stats.generation > n \/ ~app.running \/ pc # "loop")

\* running, a generation made in an iteration that consumed another key
C17_Witness ==
    /\ pc = "loop"
    /\ app.running
    /\ last_event = "other"
    /\ ticked
    /\ app.stats.generation = 2


\* C18 as stated: on every grid of positive width and height, the positions
\* count_neighbors(x, y) reads are 8 distinct cells, none of them (x, y), and
\* the count is the number of live cells among them.
C18_EightDistinct ==
    probe.op = "count_neighbors" =>
        LET cells == NeighborCells(app, probe.x, probe.y)
        IN /\ Cardinality(cells) = 8
           /\ <<probe.x, probe.y>> \notin cells
           /\ probe.result = Cardinality({c \in cells : Alive(app, c)})

\* C18 amended: the same on every grid of width at least 3 and height at
\* least 3; on a narrower torus wrapped positions coincide.
C18_EightDistinctFrom3 ==
    (probe.op = "count_neighbors" /\ app.width >= 3 /\ app.height >= 3) =>
        LET cells == NeighborCells(app, probe.x, probe.y)
        IN /\ Cardinality(cells) = 8
           /\ <<probe.x, probe.y>> \notin cells
           /\ probe.result = Cardinality({c \in cells : Alive(app, c)})

\* count_neighbors has run for a live cell of a full grid at least 3 wide
\* and 3 high, and has counted 8
C18_Witness ==
    /\ probe.op = "count_neighbors"
    /\ app.width >= 3 /\ app.height >= 3
    /\ Alive(app, <<probe.x, probe.y>>)
    /\ probe.result = 8


\* C19: current_population is the population at construction plus
\* cells_created minus cells_destroyed: both counters are 0 at construction,
\* and every step changes current_population by the change of cells_created
\* minus the change of cells_destroyed.
C19_Conserved ==
    /\ app.stats.cells_created = 0 /\ app.stats.cells_destroyed = 0
    /\ [][app'.stats.current_population - app.stats.current_population
             = (app'.stats.cells_created - app.stats.cells_created)
               - (app'.stats.cells_destroyed - app.stats.cells_destroyed)]_vars

\* the loop has made an update with births, and the recount found cells
C19_Witness ==
    /\ last_event # "start"
    /\ app.stats.generation >= 1
    /\ app.stats.cells_created > 0
    /\ app.stats.current_population > 0

====
